---- MODULE Spec2Model ----
(***************************************************************************)
(* A model of the TableWriter package (src/utils/utils.go): the Writer     *)
(* buffers written bytes and, on Flush, renders them as a bordered table.  *)
(*                                                                         *)
(* A Go string is modelled as a sequence of one-character tokens; len() is *)
(* the length of the sequence for ASCII text.  A box-drawing glyph is one  *)
(* token that stands for three bytes (see ByteLen).                        *)
(***************************************************************************)
EXTENDS Integers, Sequences, FiniteSets, TLC

\* ------------------------------------------------------------------------
\* Bounds of the model
\* ------------------------------------------------------------------------

\* Maximum number of Write calls between two resets of the buffer.
MaxWrites == 4

\* ------------------------------------------------------------------------
\* Characters
\* ------------------------------------------------------------------------

ESC == "ESC"
TAB == "\t"
NL == "\n"
CR == "\r"
SP == " "

\* utils.ColorOrange and utils.ColorReset: colour palette constants.
ColorOrange == <<ESC, "[", "3", "3", "m">>
ColorReset == <<ESC, "[", "0", "m">>

\* The byte chunks a caller hands to Write.
Chunks ==
  { <<"a">>,
    <<"a", "b", "c", "d", "e", "f">>,
    <<TAB>>,
    <<NL>>,
    <<ESC, "[">>,
    <<"1", "m">>,
    <<CR>> }

\* The flag combinations a Writer is constructed with.
StripColours == 1
AlignMiddle == 2
AlignRight == 4
RemoveLeastPad == 8
PreserveLongFields == 16
AsciiTable == 32

FlagSets ==
  { 0,
    StripColours,
    AlignMiddle,
    AlignRight,
    AlignMiddle + AlignRight,
    RemoveLeastPad,
    AlignMiddle + RemoveLeastPad,
    PreserveLongFields,
    AsciiTable,
    StripColours + AlignRight + AsciiTable }

\* The terminal widths GetTerminalSize reports (0: the query failed).
TermWidths == {0, 3, 8, 16}

\* flags & bit != 0
HasFlag(f, bit) == (f \div bit) % 2 = 1

\* ------------------------------------------------------------------------
\* String helpers (package strings / bytes)
\* ------------------------------------------------------------------------

\* s[lo:hi] of Go, on a 1-based sequence: elements lo+1 .. hi.
Slice(s, lo, hi) == SubSeq(s, lo + 1, hi)

\* strings.Repeat / bytes.Repeat for a count >= 0.
Repeat(x, n) == [i \in 1..n |-> x]

\* strings.HasPrefix(s[i:], p), i 0-based.
HasPrefixAt(s, i, p) ==
  /\ i + Len(p) <= Len(s)
  /\ \A k \in 1..Len(p) : s[i + k] = p[k]

RECURSIVE SplitFrom(_, _, _, _)
SplitFrom(s, sep, i, cur) ==
  IF i > Len(s) THEN <<cur>>
  ELSE IF s[i] = sep THEN <<cur>> \o SplitFrom(s, sep, i + 1, <<>>)
  ELSE SplitFrom(s, sep, i + 1, Append(cur, s[i]))

\* strings.Split(s, sep) for a one-character separator.
Split(s, sep) == SplitFrom(s, sep, 1, <<>>)

RECURSIVE ReplaceFrom(_, _, _, _)
ReplaceFrom(s, old, new, i) ==
  IF i >= Len(s) THEN <<>>
  ELSE IF HasPrefixAt(s, i, old)
       THEN new \o ReplaceFrom(s, old, new, i + Len(old))
       ELSE <<s[i + 1]>> \o ReplaceFrom(s, old, new, i + 1)

RECURSIVE Interleave(_, _, _)
Interleave(s, new, i) ==
  IF i > Len(s) THEN new
  ELSE new \o <<s[i]>> \o Interleave(s, new, i + 1)

\* strings.Replace(s, old, new, -1): every non-overlapping occurrence, from
\* the left; an empty old matches before every character and at the end.
Replace(s, old, new) ==
  IF Len(old) = 0 THEN Interleave(s, new, 1)
  ELSE ReplaceFrom(s, old, new, 0)

\* ------------------------------------------------------------------------
\* escapeColorCodesRegex = \033\[[0-9;]+m
\* ------------------------------------------------------------------------

ColorParamChars == {"0", "1", "2", "3", "4", "5", "6", "7", "8", "9", ";"}

RECURSIVE ParamRun(_, _)
\* Number of characters of [0-9;] in s from 1-based position i on.
ParamRun(s, i) ==
  IF i <= Len(s) /\ s[i] \in ColorParamChars THEN 1 + ParamRun(s, i + 1) ELSE 0

\* Length of the match of the regex that starts at 0-based offset i; 0: none.
MatchLenAt(s, i) ==
  IF /\ i + 2 <= Len(s)
     /\ s[i + 1] = ESC
     /\ s[i + 2] = "["
     /\ ParamRun(s, i + 3) >= 1
     /\ i + 3 + ParamRun(s, i + 3) <= Len(s)
     /\ s[i + 3 + ParamRun(s, i + 3)] = "m"
  THEN 3 + ParamRun(s, i + 3)
  ELSE 0

RECURSIVE FindAllFrom(_, _)
FindAllFrom(s, i) ==
  IF i >= Len(s) THEN <<>>
  ELSE IF MatchLenAt(s, i) > 0
       THEN <<Slice(s, i, i + MatchLenAt(s, i))>> \o FindAllFrom(s, i + MatchLenAt(s, i))
       ELSE FindAllFrom(s, i + 1)

\* escapeColorCodesRegex.FindAllString(s, -1)
FindAllString(s) == FindAllFrom(s, 0)

RECURSIVE RemoveEach(_, _, _)
RemoveEach(s, ccs, k) ==
  IF k > Len(ccs) THEN s
  ELSE RemoveEach(Replace(s, ccs[k], <<>>), ccs, k + 1)

\* The colourless copy of a field (createColumns, the loop over the matches).
Colorless(field) == RemoveEach(field, FindAllString(field), 1)

\* ------------------------------------------------------------------------
\* The Writer
\* ------------------------------------------------------------------------

\* Go's integer division truncates toward zero.
GoDiv(a, b) == IF a >= 0 THEN a \div b ELSE -((-a) \div b)

\* Runes of the categories Cf, Cc, Mn, Zs and the other Unicode spaces.
InvisibleRunes == {CR}

\* cleanInvisibleChars: ' ', ESC, '\t' and '\n' are kept, the invisible
\* runes are dropped, everything else is kept.
cleanInvisibleChars(s) ==
  SelectSeq(s, LAMBDA r : r \in {SP, ESC, TAB, NL} \/ r \notin InvisibleRunes)

\* Writer.init: the divider set of the flags.
dividers(flags) ==
  IF HasFlag(flags, AsciiTable)
  THEN [HLine |-> "-", VLine |-> "|", TL |-> "+", TR |-> "+", BL |-> "+",
        BR |-> "+", TUp |-> "+", TDown |-> "+", Cross |-> "+",
        VLeft |-> "+", VRight |-> "+"]
  ELSE [HLine |-> "U+2500", VLine |-> "U+2502", TL |-> "U+250C",
        TR |-> "U+2510", BL |-> "U+2514", BR |-> "U+2518",
        TUp |-> "U+252C", TDown |-> "U+2534", Cross |-> "U+253C",
        VLeft |-> "U+251C", VRight |-> "U+2524"]

\* The box-drawing glyphs of the Unicode divider set.
BoxGlyphs ==
  {"U+2500", "U+2502", "U+250C", "U+2510", "U+2514", "U+2518", "U+252C",
   "U+2534", "U+253C", "U+251C", "U+2524"}

\* len() of one token in bytes: a box-drawing glyph is three bytes of UTF-8.
ByteLen(g) == IF g \in BoxGlyphs THEN 3 ELSE 1

RECURSIVE ByteLenSeq(_)
ByteLenSeq(s) == IF Len(s) = 0 THEN 0 ELSE ByteLen(Head(s)) + ByteLenSeq(Tail(s))

\* The slice expression [:maxFieldLen-5] of truncateLongField aborts the
\* program when its bound is negative.
TruncatePanics(maxFieldLen) == maxFieldLen - 5 < 0

\* The condition of truncateLongField; l and c are 0-based.
TruncateApplies(flags, termCols, c, maxFieldLen, fields, colorless) ==
  /\ ~HasFlag(flags, PreserveLongFields)
  /\ termCols > 0
  /\ c = Len(fields) - 1
  /\ Len(colorless) > maxFieldLen

Marker == <<"[", ".", ".", ".", "]">>

\* F(v), with v evaluated once (a local variable of the code).
Bind(v, F(_)) == CHOOSE r \in {F(x) : x \in {v}} : TRUE

\* truncateLongField: st is [lines, columns, colorless, panicked].
truncateLongField(flags, termCols, l, c, maxFieldLen, fields, st) ==
  Bind(st.colorless[l + 1][c + 1], LAMBDA cl :
    IF ~TruncateApplies(flags, termCols, c, maxFieldLen, fields, cl) THEN st
    ELSE IF TruncatePanics(maxFieldLen) THEN [st EXCEPT !.panicked = TRUE]
    ELSE
      LET cut == Slice(cl, 0, maxFieldLen - 5)
          newColorLessStr == cut \o Marker
          newFieldStr == Replace(fields[c + 1], cl, cut \o ColorOrange \o Marker \o ColorReset)
      IN [st EXCEPT !.lines[l + 1] = Replace(st.lines[l + 1], fields[c + 1], newFieldStr),
                    !.colorless[l + 1][c + 1] = newColorLessStr])

\* The update of w.columns[c].textWidth at the end of createColumns' inner loop.
updateTextWidth(l, c, st) ==
  IF ~st.panicked /\ Len(st.colorless[l + 1][c + 1]) > st.columns[c + 1]
  THEN [st EXCEPT !.columns[c + 1] = Len(st.colorless[l + 1][c + 1])]
  ELSE st

RECURSIVE createColumnsFields(_, _, _, _, _, _, _)
\* The loop over the fields of line l in createColumns.
createColumnsFields(flags, termCols, l, fields, maxFieldLen, c, st) ==
  IF c >= Len(fields) \/ st.panicked THEN st
  ELSE
    Bind([st EXCEPT !.colorless[l + 1] = Append(@, Colorless(fields[c + 1]))], LAMBDA s1 :
    Bind(truncateLongField(flags, termCols, l, c, maxFieldLen, fields, s1), LAMBDA s2 :
    Bind(updateTextWidth(l, c, s2), LAMBDA s3 :
    Bind(c + 1, LAMBDA c1 :
      createColumnsFields(flags, termCols, l, fields, maxFieldLen, c1, s3)))))

\* The growth of w.columns to the number of fields of a line.
growColumns(columns, n) ==
  IF n > Len(columns) THEN columns \o Repeat(0, n - Len(columns)) ELSE columns

RECURSIVE createColumnsLines(_, _, _, _)
\* The loop over the lines in createColumns.
createColumnsLines(flags, termCols, l, st) ==
  IF l >= Len(st.lines) \/ st.panicked THEN st
  ELSE IF Len(st.lines[l + 1]) = 0
  THEN Bind(l + 1, LAMBDA l1 : createColumnsLines(flags, termCols, l1, st))
  ELSE
    Bind(Split(st.lines[l + 1], TAB), LAMBDA fields :
    Bind(GoDiv(termCols, Len(fields)) - 3, LAMBDA maxFieldLen :
    Bind([st EXCEPT !.columns = growColumns(st.columns, Len(fields))], LAMBDA s1 :
    Bind(createColumnsFields(flags, termCols, l, fields, maxFieldLen, 0, s1), LAMBDA s2 :
    Bind(l + 1, LAMBDA l1 :
      createColumnsLines(flags, termCols, l1, s2))))))

\* createColumns, from the Writer's lines and columns.
createColumns(flags, termCols, lines, columns) ==
  Bind([lines |-> lines, columns |-> columns,
        colorless |-> [i \in 1..Len(lines) |-> <<>>], panicked |-> FALSE], LAMBDA st :
    createColumnsLines(flags, termCols, 0, st))

\* getPadding: c is 0-based.
getPadding(flags, columns, c, colorlessField) ==
  LET base == columns[c + 1] - Len(colorlessField)
      t1 == IF ~HasFlag(flags, RemoveLeastPad) THEN base + 1 ELSE base
  IN
  IF ~HasFlag(flags, PreserveLongFields)
  THEN IF HasFlag(flags, AlignMiddle)
       THEN LET t2 == IF ~HasFlag(flags, RemoveLeastPad) THEN t1 + 1 ELSE t1
                halfPadding == GoDiv(t2, 2)
            IN [total |-> t2, left |-> Repeat(SP, halfPadding),
                right |-> Repeat(SP, t2 - halfPadding),
                panics |-> halfPadding < 0 \/ t2 - halfPadding < 0]
       ELSE IF HasFlag(flags, AlignRight)
            THEN [total |-> t1, left |-> Repeat(SP, t1), right |-> <<>>, panics |-> t1 < 0]
            ELSE [total |-> t1, left |-> <<>>, right |-> Repeat(SP, t1), panics |-> t1 < 0]
  ELSE [total |-> 0, left |-> <<>>, right |-> <<>>, panics |-> FALSE]

\* The junction glyph updateHLine chooses.
xDivider(d, l, isLastRow, isLastField) ==
  IF l = 0 /\ ~isLastField THEN d.TUp
  ELSE IF l = 0 THEN d.TR
  ELSE IF isLastRow /\ ~isLastField THEN d.TDown
  ELSE IF isLastRow THEN d.BR
  ELSE IF isLastField THEN d.VRight
  ELSE d.Cross

\* The glyph updateHLine puts in front of the line at the last field.
hLinePrefix(d, l, isLastRow) ==
  IF l = 0 THEN d.TL ELSE IF isLastRow THEN d.BL ELSE d.VLeft

\* updateHLine: the new value of *hLine.
updateHLine(flags, termCols, hLine, hLineLength, l, isLastRow, isLastField) ==
  LET d == dividers(flags)
      availableTermSpace == termCols - GoDiv(ByteLenSeq(hLine), ByteLen(d.HLine))
      x == xDivider(d, l, isLastRow, isLastField)
      prefixed == IF isLastField THEN <<hLinePrefix(d, l, isLastRow)>> \o hLine ELSE hLine
  IN
  IF availableTermSpace > 0
  THEN IF availableTermSpace >= hLineLength
       THEN prefixed \o Repeat(d.HLine, hLineLength - 1) \o <<x>>
       ELSE prefixed \o Repeat(d.HLine, availableTermSpace - 1) \o <<x>>
  ELSE prefixed

\* One field of createTable's inner loop; t is [buf, hLine, prefixHLine,
\* cells, panicked], l and c are 0-based, nLines is len(w.lines).
createTableField(flags, termCols, columns, colorlessFields, nLines, l, fields, c, t) ==
  IF c + 1 > Len(colorlessFields[l + 1]) THEN [t EXCEPT !.panicked = TRUE]
  ELSE
    Bind(dividers(flags), LAMBDA d :
    Bind(colorlessFields[l + 1][c + 1], LAMBDA cl :
    Bind(IF HasFlag(flags, StripColours) THEN cl ELSE fields[c + 1], LAMBDA field :
    Bind(getPadding(flags, columns, c, cl), LAMBDA pad :
    Bind(Len(cl) + pad.total + 1, LAMBDA hLineLength :
      IF pad.panics THEN [t EXCEPT !.panicked = TRUE]
      ELSE
        [buf |-> t.buf \o (IF c = 0 THEN <<d.VLine>> ELSE <<>>)
                   \o pad.left \o field \o pad.right \o <<d.VLine>>,
         prefixHLine |-> IF l = 0
                         THEN updateHLine(flags, termCols, t.prefixHLine, hLineLength,
                                          l, l = nLines - 1, c = Len(fields) - 1)
                         ELSE t.prefixHLine,
         hLine |-> updateHLine(flags, termCols, t.hLine, hLineLength,
                               l + 1, l = nLines - 1, c = Len(fields) - 1),
         cells |-> Append(t.cells, [field |-> field, colorless |-> cl,
                                    left |-> pad.left, right |-> pad.right,
                                    total |-> pad.total]),
         panicked |-> FALSE])))))

RECURSIVE createTableFields(_, _, _, _, _, _, _, _, _)
\* The loop over the fields of line l in createTable.
createTableFields(flags, termCols, columns, colorlessFields, nLines, l, fields, c, t) ==
  IF c >= Len(fields) \/ t.panicked THEN t
  ELSE
    Bind(createTableField(flags, termCols, columns, colorlessFields, nLines, l, fields, c, t),
         LAMBDA t1 :
    Bind(c + 1, LAMBDA c1 :
      createTableFields(flags, termCols, columns, colorlessFields, nLines, l, fields, c1, t1)))

\* What createTable appends for line l once its fields are rendered: the top
\* border above everything for l = 0, then the newline, the divider and a
\* newline; rows records what was rendered for the line.
createTableRow(acc, l, t) ==
  [out |-> (IF l = 0 THEN t.prefixHLine \o <<NL>> \o t.buf ELSE t.buf)
             \o <<NL>> \o t.hLine \o <<NL>>,
   rows |-> Append(acc.rows, [l |-> l, cells |-> t.cells, hLine |-> t.hLine,
                              top |-> t.prefixHLine, hasTop |-> l = 0]),
   panicked |-> t.panicked]

RECURSIVE createTableLines(_, _, _, _, _, _, _)
\* The loop over the lines in createTable; acc is [out, rows, panicked]:
\* out is formattedBuffer.
createTableLines(flags, termCols, lines, columns, colorlessFields, l, acc) ==
  IF l >= Len(lines) \/ acc.panicked THEN acc
  ELSE IF Len(lines[l + 1]) = 0
  THEN Bind(l + 1, LAMBDA l1 :
         createTableLines(flags, termCols, lines, columns, colorlessFields, l1, acc))
  ELSE
    Bind(Split(lines[l + 1], TAB), LAMBDA fields :
    Bind(createTableFields(flags, termCols, columns, colorlessFields, Len(lines), l, fields, 0,
           [buf |-> acc.out, hLine |-> <<>>, prefixHLine |-> <<>>,
            cells |-> <<>>, panicked |-> FALSE]), LAMBDA t :
    Bind(createTableRow(acc, l, t), LAMBDA acc1 :
    Bind(l + 1, LAMBDA l1 :
      createTableLines(flags, termCols, lines, columns, colorlessFields, l1, acc1)))))

\* createTable
createTable(flags, termCols, lines, columns, colorlessFields) ==
  createTableLines(flags, termCols, lines, columns, colorlessFields, 0,
    [out |-> <<>>, rows |-> <<>>, panicked |-> FALSE])

\* The lines Flush derives from the buffer (the split and the dropped
\* empty last line).
flushLines(buffer) ==
  Bind(Split(cleanInvisibleChars(buffer), NL), LAMBDA split :
    IF Len(split[Len(split)]) = 0 THEN Slice(split, 0, Len(split) - 1) ELSE split)

\* formatBuffer, from the Writer's lines and columns: the rendered bytes and
\* the intermediate values of the rendering.
formatBuffer(flags, termCols, lines0, columns) ==
  Bind(lines0, LAMBDA lines :
  Bind(createColumns(flags, termCols, lines, columns), LAMBDA cc :
  Bind(IF cc.panicked
       THEN [out |-> <<>>, rows |-> <<>>, panicked |-> TRUE]
       ELSE createTable(flags, termCols, cc.lines, cc.columns, cc.colorless), LAMBDA tb :
    [out |-> tb.out, rows |-> tb.rows, panicked |-> tb.panicked,
     lines |-> cc.lines, columns |-> cc.columns, colorless |-> cc.colorless,
     input |-> lines])))

\* ------------------------------------------------------------------------
\* State
\* ------------------------------------------------------------------------

VARIABLES
  w,        \* the Writer: [flags, termCols, buffer, columns, lines]
  op,       \* the operation that ran last
  ret,      \* what it returned
  sink,     \* what it handed to the output sink: [called, bytes]
  last,     \* the rendering of the last Flush, with its intermediate values
  pending,  \* the bytes written since the last Flush, Clear or construction
  writes    \* the number of Write calls since then

vars == <<w, op, ret, sink, last, pending, writes>>

NoRender ==
  [out |-> <<>>, rows |-> <<>>, panicked |-> FALSE, lines |-> <<>>,
   columns |-> <<>>, colorless |-> <<>>, input |-> <<>>]

NoSink == [called |-> FALSE, bytes |-> <<>>]

\* A Clear that forgets to reset the columns.
ClearKeepsColumns(wr) == [wr EXCEPT !.buffer = <<>>, !.lines = <<>>]

\* Writer.Clear
Clear(wr) == [wr EXCEPT !.columns = <<>>, !.buffer = <<>>, !.lines = <<>>]

\* Writer.Write: the new buffer.
appendBuffer(buffer, buf) == buffer \o buf

\* NewWriter / Writer.init
NewWriter(flags, termCols) ==
  Clear([flags |-> flags, termCols |-> termCols, buffer |-> <<>>,
         columns |-> <<>>, lines |-> <<>>])

Init ==
  /\ \E flags \in FlagSets, termCols \in TermWidths : w = NewWriter(flags, termCols)
  /\ op = "NewWriter"
  /\ ret = [n |-> 0, err |-> "nil"]
  /\ sink = NoSink
  /\ last = NoRender
  /\ pending = <<>>
  /\ writes = 0

Write(buf) ==
  /\ writes < MaxWrites
  /\ w' = [w EXCEPT !.buffer = appendBuffer(w.buffer, buf)]
  /\ op' = "Write"
  /\ ret' = [n |-> Len(buf), err |-> "nil"]
  /\ sink' = NoSink
  /\ last' = NoRender
  /\ pending' = pending \o buf
  /\ writes' = writes + 1

\* Flush whose rendering aborts: the deferred Clear still runs.
FlushPanic ==
  \E r \in {formatBuffer(w.flags, w.termCols, flushLines(w.buffer), w.columns)} :
  /\ r.panicked
  /\ w' = Clear([w EXCEPT !.lines = r.lines, !.columns = r.columns])
  /\ op' = "Flush"
  /\ ret' = [n |-> 0, err |-> "panic"]
  /\ sink' = NoSink
  /\ last' = r
  /\ pending' = <<>>
  /\ writes' = 0

\* Flush whose rendering completes; the sink accepts all bytes or fails.
FlushWrite(accepted) ==
  \E r \in {formatBuffer(w.flags, w.termCols, flushLines(w.buffer), w.columns)} :
  /\ ~r.panicked
  /\ w' = Clear([w EXCEPT !.lines = r.lines, !.columns = r.columns])
  /\ op' = "Flush"
  /\ ret' = [n |-> 0, err |-> IF accepted THEN "nil" ELSE "ErrShortWrite"]
  /\ sink' = [called |-> TRUE, bytes |-> r.out]
  /\ last' = r
  /\ pending' = <<>>
  /\ writes' = 0

ClearCall ==
  /\ w' = Clear(w)
  /\ op' = "Clear"
  /\ ret' = [n |-> 0, err |-> "nil"]
  /\ sink' = NoSink
  /\ last' = NoRender
  /\ pending' = <<>>
  /\ writes' = 0

Next ==
  \/ \E buf \in Chunks : Write(buf)
  \/ FlushPanic
  \/ \E accepted \in BOOLEAN : FlushWrite(accepted)
  \/ ClearCall

Spec == Init /\ [][Next]_vars

\* A Writer on a terminal wide enough for two-field lines to be truncated.
InitWide == Init /\ w.termCols = 16

SpecWide == InitWide /\ [][Next]_vars

\* A Writer on a terminal where only one-field lines can be truncated.
InitNarrow == Init /\ w.termCols = 8

SpecNarrow == InitNarrow /\ [][Next]_vars

\* Writers of three flag combinations, on every terminal width.
InitLifecycle ==
  Init /\ w.flags \in {0, PreserveLongFields, StripColours + AlignRight + AsciiTable}

SpecLifecycle == InitLifecycle /\ [][Next]_vars

\* ------------------------------------------------------------------------
\* Properties
\* ------------------------------------------------------------------------

Range(s) == {s[i] : i \in 1..Len(s)}

\* A Flush that rendered and called the sink has just run.
Flushed == op = "Flush" /\ sink.called

\* C1: with both AlignMiddle and AlignRight set (PreserveLongFields not
\* set), the padding of every field is that of AlignRight alone: the left
\* padding holds all of it and the right padding is empty.
C1_MiddleAndRightPadsAsRight ==
  (/\ Flushed
   /\ HasFlag(w.flags, AlignMiddle)
   /\ HasFlag(w.flags, AlignRight)
   /\ ~HasFlag(w.flags, PreserveLongFields))
  => \A i \in 1..Len(last.rows) : \A c \in 1..Len(last.rows[i].cells) :
       LET cell == last.rows[i].cells[c]
           right == getPadding(w.flags - AlignMiddle, last.columns, c - 1, cell.colorless)
       IN /\ cell.right = <<>>
          /\ cell.left = right.left
          /\ Len(cell.left) = cell.total

\* C2: Write appends its bytes to the buffer, returns their number and no
\* error and does not call the sink; Flush returns with buffer, columns and
\* lines empty whatever it returns; the bytes Flush hands to the sink are
\* the rendering, by a fresh Writer, of the bytes written since the last
\* Flush, Clear or construction.
C2_WriteFlushClearLifecycle ==
  /\ [](w.buffer = pending /\ w.columns = <<>> /\ w.lines = <<>>)
  /\ [][/\ op' = "Write" =>
              /\ \E buf \in Chunks : w'.buffer = w.buffer \o buf /\ ret'.n = Len(buf)
              /\ ret'.err = "nil"
              /\ ~sink'.called
        /\ op' = "Flush" =>
              /\ w'.buffer = <<>> /\ w'.columns = <<>> /\ w'.lines = <<>>
              /\ sink'.called =>
                   sink'.bytes = formatBuffer(w.flags, w.termCols, flushLines(pending), <<>>).out
              /\ sink'.called => ret'.err \in {"nil", "ErrShortWrite"}]_vars

\* A Flush of a table of two columns returned a short write and left the
\* Writer empty.
C2_Witness ==
  /\ Flushed
  /\ ret.err = "ErrShortWrite"
  /\ Len(last.columns) = 2
  /\ Len(last.rows) >= 2
  /\ w.buffer = <<>> /\ w.columns = <<>> /\ w.lines = <<>>

\* C3: when at least one row is rendered, the output is one top border that
\* begins with the top-left corner, then for each rendered row a content
\* line and a divider line, and the last divider begins with the
\* bottom-left corner and ends with the bottom-right corner.
C3_TableShape ==
  (Flushed /\ Len(last.rows) >= 1) =>
    LET d == dividers(w.flags)
        ls == Split(sink.bytes, NL)
        k == Len(last.rows)
    IN /\ Len(ls) = 2 * k + 2
       /\ Len(ls[1]) >= 1 /\ ls[1][1] = d.TL
       /\ \A i \in 1..k :
            /\ Len(ls[2 * i]) >= 1 /\ ls[2 * i][1] = d.VLine
            /\ ls[2 * i + 1] = last.rows[i].hLine
       /\ Len(ls[2 * k + 1]) >= 2
       /\ ls[2 * k + 1][1] = d.BL
       /\ ls[2 * k + 1][Len(ls[2 * k + 1])] = d.BR

\* The separation constant of a flag combination.
Separation(flags) ==
  IF HasFlag(flags, RemoveLeastPad) THEN 0
  ELSE IF HasFlag(flags, AlignMiddle) THEN 2 ELSE 1

\* C4: without PreserveLongFields, the visible length of every rendered
\* field (its length without colour sequences) plus its left and right
\* padding is the final textWidth of its column plus the separation
\* constant, also in rows where a field was truncated.
C4_PaddingInvariant ==
  (Flushed /\ ~HasFlag(w.flags, PreserveLongFields)) =>
    \A i \in 1..Len(last.rows) : \A c \in 1..Len(last.rows[i].cells) :
      LET cell == last.rows[i].cells[c]
      IN Len(Colorless(cell.field)) + Len(cell.left) + Len(cell.right)
           = last.columns[c] + Separation(w.flags)

\* C5: with StripColours, the bytes handed to the sink hold no escape
\* character.
C5_StripColoursLeavesNoEscape ==
  (Flushed /\ HasFlag(w.flags, StripColours)) => ESC \notin Range(sink.bytes)

\* C6: with a known terminal width and without PreserveLongFields, a last
\* field as long as maxFieldLen = termCols / n - 3 is kept, and a longer one
\* becomes its first maxFieldLen - 5 characters followed by "[...]".
C6_TruncationBoundary ==
  (/\ op = "Flush"
   /\ w.termCols > 0
   /\ ~HasFlag(w.flags, PreserveLongFields))
  => \A l \in 1..Len(last.input) :
       Len(last.input[l]) > 0 =>
         LET fields == Split(last.input[l], TAB)
             n == Len(fields)
             maxFieldLen == GoDiv(w.termCols, n) - 3
             orig == Colorless(fields[n])
         IN /\ Len(last.colorless[l]) = n
            /\ Len(orig) = maxFieldLen => last.colorless[l][n] = orig
            /\ Len(orig) > maxFieldLen =>
                 /\ maxFieldLen - 5 >= 0
                 /\ last.colorless[l][n] = SubSeq(orig, 1, maxFieldLen - 5) \o Marker
                 /\ Len(last.colorless[l][n]) = maxFieldLen

RECURSIVE fullHLine(_, _, _, _, _)
\* The divider of a row drawn in full: for each field a run as long as the
\* field's content and padding, then its junction glyph.
fullHLine(d, cells, l, isLastRow, c) ==
  IF c > Len(cells) THEN <<>>
  ELSE Repeat(d.HLine, Len(cells[c].colorless) + cells[c].total)
         \o <<xDivider(d, l, isLastRow, c = Len(cells))>>
         \o fullHLine(d, cells, l, isLastRow, c + 1)

\* C7: with an unknown terminal width (termCols = 0) nothing is truncated
\* and every divider is drawn in full: after the left-edge glyph, for each
\* field a run sized by the field's content and padding and its junction.
C7_UnknownWidthDrawsFullDividers ==
  (Flushed /\ w.termCols = 0) =>
    /\ last.lines = last.input
    /\ \A i \in 1..Len(last.rows) :
         LET row == last.rows[i]
             d == dividers(w.flags)
             isLastRow == row.l = Len(last.lines) - 1
         IN row.hLine = <<hLinePrefix(d, row.l + 1, isLastRow)>>
                          \o fullHLine(d, row.cells, row.l + 1, isLastRow, 1)

\* C8: in a line whose last field is truncated, every other field is
\* rendered with its sanitized input content and the number of fields is
\* unchanged.
C8_TruncationTouchesOnlyLastField ==
  Flushed =>
    \A i \in 1..Len(last.rows) :
      LET row == last.rows[i]
          fields == Split(last.input[row.l + 1], TAB)
          n == Len(fields)
      IN last.colorless[row.l + 1][n] # Colorless(fields[n]) =>
           /\ Len(row.cells) = n
           /\ \A c \in 1..(n - 1) :
                row.cells[c].field =
                  IF HasFlag(w.flags, StripColours) THEN Colorless(fields[c]) ELSE fields[c]

\* C9: with a known terminal width, every divider line (top border,
\* interior dividers, bottom border), counted in glyphs with its left-edge
\* glyph and its junctions, is at most termCols long.
C9_DividersFitTerminal ==
  (Flushed /\ w.termCols > 0) =>
    \A i \in 1..Len(last.rows) :
      /\ Len(last.rows[i].hLine) <= w.termCols
      /\ last.rows[i].hasTop => Len(last.rows[i].top) <= w.termCols

\* C10: Flush never aborts; the only failure it reports is the short write.
C10_FlushNeverAborts ==
  op = "Flush" => (~last.panicked /\ ret.err \in {"nil", "ErrShortWrite"})

====
